---- MODULE Spec2Model ----
(***************************************************************************)
(* A model of ccd (src/src/ccd/ccd.py): the command line front end that    *)
(* builds, runs and attaches to the claude-code container.  Strings are    *)
(* TLA+ strings, handled character by character as the Python code does.   *)
(***************************************************************************)
EXTENDS Integers, Sequences, FiniteSets, TLC

VARIABLES
    command,          \* args.command: "build", "run", "." or "attach"
    args,             \* the parsed argparse namespace
    unknown,          \* the arguments parse_known_args did not recognise
    pc,               \* where the process is
    fs,               \* the host filesystem: path -> "none", "dir", "empty", "data"
    ps,               \* what `docker ps --format {{.Names}}` prints now
    calls,            \* the engine invocations made so far
    log,              \* the records logged and the lines printed
    status,           \* the exit status of the process, NoStatus while it runs
    exc,              \* the exception that ended the process uncaught, "" if none
    interrupted,      \* where a KeyboardInterrupt was raised, "" if nowhere
    docker_arg_list,  \* main: the build arguments collected
    path_specs,       \* run_container: the PathSpec list
    volume_cmds,      \* run_container: the rendered mount flags
    container_name,   \* the container name chosen (run) or selected (attach)
    running,          \* the list get_running_containers returned last
    line,             \* the line input() returned last
    reads,            \* how many times input() was called
    ops,              \* the filesystem calls made by prepare_paths, in order
    env,              \* how many times the environment interfered
    hist              \* what is remembered of earlier states

vars == <<command, args, unknown, pc, fs, ps, calls, log, status, exc, interrupted,
          docker_arg_list, path_specs, volume_cmds, container_name, running, line,
          reads, ops, env, hist>>

----------------------------------------------------------------------------
(* Program constants *)

IMAGE_NAME == "claude-code"
IMAGE_HOME_FOLDER == "/home/ubuntu"
CONTAINER_NAME_BASE == "ccd"

Features == {"rust", "claude", "codex", "gemini", "opencode", "copilot"}

FEATURE_BUILD_ARGS ==
    [f \in Features |->
        CASE f = "rust" -> "WITH_RUST"
          [] f = "claude" -> "WITH_CLAUDE"
          [] f = "codex" -> "WITH_CODEX"
          [] f = "gemini" -> "WITH_GEMINI"
          [] f = "opencode" -> "WITH_OPENCODE"
          [] f = "copilot" -> "WITH_COPILOT"]

Components == {"nvm", "node", "npm", "uv", "rustup", "claude", "codex", "gemini",
               "opencode", "copilot"}

VERSION_BUILD_ARGS ==
    [c \in Components |->
        CASE c = "nvm" -> "NVM_VERSION"
          [] c = "node" -> "NVM_NODE_VERSION"
          [] c = "npm" -> "NPM_VERSION"
          [] c = "uv" -> "UV_VERSION"
          [] c = "rustup" -> "RUSTUP_VERSION"
          [] c = "claude" -> "CLAUDE_VERSION"
          [] c = "codex" -> "CODEX_VERSION"
          [] c = "gemini" -> "GEMINI_VERSION"
          [] c = "opencode" -> "OPENCODE_VERSION"
          [] c = "copilot" -> "COPILOT_VERSION"]

\* sys.exit(1) of every error handler, and the status of an uncaught exception
ExitFailure == 1
\* sys.exit(0) of the KeyboardInterrupt handlers, and a normal return of main
ExitSuccess == 0
\* the status of a process that has not exited
NoStatus == -1
\* what /bin/sh returns when the command it is given is not found (shell=True)
ShellNotFound == 127
\* the status of a process that a KeyboardInterrupt no handler catches has ended
KeyboardInterruptStatus == 130

----------------------------------------------------------------------------
(* Python's str *)

Char(s, i) == SubSeq(s, i, i)

\* the characters of the model's strings in code point order (no backquote)
Alphabet ==
    " !\"#$%&'()*+,-./0123456789:;<=>?@ABCDEFGHIJKLMNOPQRSTUVWXYZ[\\]^_abcdefghijklmnopqrstuvwxyz{|}~²"

Ord(c) == CHOOSE i \in 1..Len(Alphabet) : Char(Alphabet, i) = c

RECURSIVE StrLess(_, _)
\* a < b on str: by code point, a proper prefix first
StrLess(a, b) ==
    IF Len(b) = 0 THEN FALSE
    ELSE IF Len(a) = 0 THEN TRUE
    ELSE IF Head(a) = Head(b) THEN StrLess(Tail(a), Tail(b))
    ELSE Ord(Head(a)) < Ord(Head(b))

StartsWith(s, prefix) ==
    Len(s) >= Len(prefix) /\ SubSeq(s, 1, Len(prefix)) = prefix

Whitespace == {" ", "\t"}

RECURSIVE LStrip(_)
LStrip(s) == IF Len(s) > 0 /\ Head(s) \in Whitespace THEN LStrip(Tail(s)) ELSE s

RECURSIVE RStrip(_)
RStrip(s) ==
    IF Len(s) > 0 /\ Char(s, Len(s)) \in Whitespace
    THEN RStrip(SubSeq(s, 1, Len(s) - 1))
    ELSE s

\* str.strip()
Strip(s) == RStrip(LStrip(s))

RECURSIVE SplitFrom(_, _, _, _)
SplitFrom(s, sep, i, cur) ==
    IF i > Len(s) THEN <<cur>>
    ELSE IF Char(s, i) = sep THEN <<cur>> \o SplitFrom(s, sep, i + 1, "")
    ELSE SplitFrom(s, sep, i + 1, cur \o Char(s, i))

\* str.split(sep): one more item than there are separators
Split(s, sep) == SplitFrom(s, sep, 1, "")

RECURSIVE Join(_, _)
\* sep.join(items)
Join(sep, items) ==
    IF Len(items) = 0 THEN ""
    ELSE IF Len(items) = 1 THEN items[1]
    ELSE items[1] \o sep \o Join(sep, Tail(items))

DecimalDigits == "0123456789"

\* the characters str.isdigit() accepts: the decimal digits, and digits such as
\* the superscript two that int() does not parse
IsDigitChar(c) == (\E i \in 1..Len(DecimalDigits) : Char(DecimalDigits, i) = c) \/ c = "²"

\* str.isdigit()
IsDigit(s) == Len(s) > 0 /\ \A i \in 1..Len(s) : IsDigitChar(Char(s, i))

IsDecimal(s) ==
    Len(s) > 0 /\ \A i \in 1..Len(s) :
        \E k \in 1..Len(DecimalDigits) : Char(DecimalDigits, k) = Char(s, i)

DigitValue(c) == (CHOOSE k \in 1..Len(DecimalDigits) : Char(DecimalDigits, k) = c) - 1

RECURSIVE IntOf(_, _)
IntOf(s, acc) ==
    IF Len(s) = 0 THEN acc ELSE IntOf(Tail(s), acc * 10 + DigitValue(Head(s)))

\* int(s) of a string isdigit() accepted: [ok, value]; not ok is ValueError
ParseInt(s) ==
    IF IsDecimal(s) THEN [ok |-> TRUE, value |-> IntOf(s, 0)]
    ELSE [ok |-> FALSE, value |-> 0]

RECURSIVE Str(_)
\* str(n), n >= 0
Str(n) ==
    IF n < 10 THEN Char(DecimalDigits, n + 1)
    ELSE Str(n \div 10) \o Char(DecimalDigits, (n % 10) + 1)

RECURSIVE InsertSorted(_, _)
InsertSorted(sorted, x) ==
    IF Len(sorted) = 0 THEN <<x>>
    ELSE IF StrLess(x, Head(sorted)) THEN <<x>> \o sorted
    ELSE <<Head(sorted)>> \o InsertSorted(Tail(sorted), x)

RECURSIVE Sorted(_)
\* sorted(list) of strings
Sorted(list) ==
    IF Len(list) = 0 THEN <<>>
    ELSE InsertSorted(Sorted(SubSeq(list, 1, Len(list) - 1)), list[Len(list)])

Contains(list, x) == \E i \in 1..Len(list) : list[i] = x

RECURSIVE SetToSortedSeq(_)
\* sorted(set) of strings
SetToSortedSeq(S) ==
    IF S = {} THEN <<>>
    ELSE LET m == CHOOSE x \in S : \A y \in S \ {x} : StrLess(x, y)
         IN <<m>> \o SetToSortedSeq(S \ {m})

----------------------------------------------------------------------------
(* Python's Optional[str] of argparse: None, or a string *)

None == [some |-> FALSE, val |-> ""]
Some(s) == [some |-> TRUE, val |-> s]
\* the truth value of an optional string: None and "" are false
Truthy(v) == v.some /\ v.val # ""

----------------------------------------------------------------------------
(* shlex *)

Quote == "'"
DoubleQuote == "\""

\* the characters shlex.quote leaves alone: [A-Za-z0-9_@%+=:,./-]
ShlexSafe == "-./0123456789:=ABCDEFGHIJKLMNOPQRSTUVWXYZ_abcdefghijklmnopqrstuvwxyz@%+,"

IsShlexSafe(s) ==
    \A i \in 1..Len(s) : \E k \in 1..Len(ShlexSafe) : Char(ShlexSafe, k) = Char(s, i)

RECURSIVE ReplaceQuote(_)
\* s.replace("'", "'\"'\"'")
ReplaceQuote(s) ==
    IF Len(s) = 0 THEN ""
    ELSE (IF Head(s) = Quote
          THEN Quote \o DoubleQuote \o Quote \o DoubleQuote \o Quote
          ELSE Head(s)) \o ReplaceQuote(Tail(s))

\* shlex.quote(s)
ShlexQuote(s) ==
    IF Len(s) = 0 THEN Quote \o Quote
    ELSE IF IsShlexSafe(s) THEN s
    ELSE Quote \o ReplaceQuote(s) \o Quote

\* shlex.join(list)
ShlexJoin(list) == Join(" ", [i \in 1..Len(list) |-> ShlexQuote(list[i])])

----------------------------------------------------------------------------
(* The process: logging and exit *)

LogRecord(level, msg) == [level |-> level, msg |-> msg]

\* sys.exit(code) after logging `records`
Exit(code, records) ==
    /\ pc' = "exited"
    /\ status' = code
    /\ log' = log \o records
    /\ exc' = exc

\* an exception no handler catches: the traceback, and exit status 1
Raise(exception) ==
    /\ pc' = "exited"
    /\ status' = ExitFailure
    /\ exc' = exception
    /\ log' = log

\* one engine invocation: how it was made and what it returned
Call(kind, argv, rc) == [kind |-> kind, argv |-> argv, rc |-> rc]

\* the exit statuses an engine invocation is given in the model
EngineExitCodes == {0, 1, 7, 130}

----------------------------------------------------------------------------
(* main: the build command, lines 403-454 *)

\* for item in text.split(","): feature = item.strip(); if feature: add
ParseFeatureList(text) ==
    LET items == Split(text, ",")
    IN {Strip(items[i]) : i \in 1..Len(items)} \ {""}

\* one --build-arg NAME=value pair
BuildArg(name, value) == <<"--build-arg", name \o "=" \o value>>

RECURSIVE Flatten(_)
Flatten(lists) == IF Len(lists) = 0 THEN <<>> ELSE Head(lists) \o Flatten(Tail(lists))

\* for feature, build_arg in sorted(FEATURE_BUILD_ARGS.items()): extend (--with)
WithArgs(requested) ==
    LET order == SetToSortedSeq(Features)
    IN Flatten([i \in 1..Len(order) |->
                  BuildArg(FEATURE_BUILD_ARGS[order[i]], IF order[i] \in requested THEN "1" ELSE "0")])

\* for feature, build_arg in sorted(FEATURE_BUILD_ARGS.items()): extend (--without)
WithoutArgs(excluded) ==
    LET order == SetToSortedSeq(Features)
    IN Flatten([i \in 1..Len(order) |->
                  BuildArg(FEATURE_BUILD_ARGS[order[i]], IF order[i] \in excluded THEN "0" ELSE "1")])

\* for component, build_arg in sorted(VERSION_BUILD_ARGS.items()): if version: extend
VersionArgs(versions) ==
    LET order == SetToSortedSeq(Components)
    IN Flatten([i \in 1..Len(order) |->
                  IF Truthy(versions[order[i]])
                  THEN BuildArg(VERSION_BUILD_ARGS[order[i]], versions[order[i]].val)
                  ELSE <<>>])

\* the two records logged for unknown feature names
UnknownFeatureRecords(names) ==
    << LogRecord("ERROR", "Unknown feature(s): " \o Join(", ", SetToSortedSeq(names))),
       LogRecord("ERROR", "Available features: " \o Join(", ", SetToSortedSeq(Features))) >>

\* what the build branch of main resolves to: [exit, records, list]
ResolveBuildArgs(a, extra) ==
    LET requested == ParseFeatureList(a.with_features.val)
        excluded == ParseFeatureList(a.without_features.val)
    IN IF Truthy(a.with_features) /\ Truthy(a.without_features)
       THEN [exit |-> TRUE, list |-> extra,
             records |-> <<LogRecord("ERROR", "Use only one of --with or --without")>>]
       ELSE IF Truthy(a.with_features)
       THEN IF requested \ Features # {}
            THEN [exit |-> TRUE, list |-> extra,
                  records |-> UnknownFeatureRecords(requested \ Features)]
            ELSE [exit |-> FALSE, records |-> <<>>,
                  list |-> extra \o WithArgs(requested) \o VersionArgs(a.versions)]
       ELSE IF Truthy(a.without_features)
       THEN IF excluded \ Features # {}
            THEN [exit |-> TRUE, list |-> extra,
                  records |-> UnknownFeatureRecords(excluded \ Features)]
            ELSE [exit |-> FALSE, records |-> <<>>,
                  list |-> extra \o WithoutArgs(excluded) \o VersionArgs(a.versions)]
       ELSE [exit |-> FALSE, records |-> <<>>, list |-> extra \o VersionArgs(a.versions)]

\* docker_args = shlex.join(docker_arg_list) if docker_arg_list else ""
DockerArgs(list) == IF Len(list) > 0 THEN ShlexJoin(list) ELSE ""

\* build_image: f"docker build {docker_args} -t '{image_name}' - < Dockerfile"
BuildCommand(image_name, docker_args) ==
    "docker build " \o docker_args \o " -t '" \o image_name \o "' - < Dockerfile"

----------------------------------------------------------------------------
(* pathlib and the filesystem *)

RECURSIVE DropEmpty(_)
DropEmpty(items) ==
    IF Len(items) = 0 THEN <<>>
    ELSE (IF Head(items) = "" THEN <<>> ELSE <<Head(items)>>) \o DropEmpty(Tail(items))

\* Path(p).parts without the root
PathParts(p) == DropEmpty(Split(p, "/"))

\* the absolute path of these parts
PathOf(parts) == "/" \o Join("/", parts)

\* base / name
PathJoin(base, name) == IF base = "/" THEN "/" \o name ELSE base \o "/" \o name

\* Path(p).name: the last part, "" for the root
PathName(p) == IF Len(PathParts(p)) = 0 THEN "" ELSE PathParts(p)[Len(PathParts(p))]

\* Path(p).parent: the root is its own parent
PathParent(p) ==
    IF Len(PathParts(p)) = 0 THEN "/"
    ELSE PathOf(SubSeq(PathParts(p), 1, Len(PathParts(p)) - 1))

RECURSIVE Normalize(_, _)
\* "." dropped, ".." taking the part before it away (no symbolic links)
Normalize(parts, acc) ==
    IF Len(parts) = 0 THEN acc
    ELSE IF Head(parts) = "." THEN Normalize(Tail(parts), acc)
    ELSE IF Head(parts) = ".."
         THEN Normalize(Tail(parts),
                        IF Len(acc) = 0 THEN acc ELSE SubSeq(acc, 1, Len(acc) - 1))
    ELSE Normalize(Tail(parts), Append(acc, Head(parts)))

\* Path(p).resolve() in working directory cwd
Resolve(p, cwd) ==
    IF StartsWith(p, "/") THEN PathOf(Normalize(PathParts(p), <<>>))
    ELSE PathOf(Normalize(PathParts(cwd) \o PathParts(p), <<>>))

\* what is at path p: "none", "dir", "empty" (an empty file), "data" (a file with content)
Kind(f, p) == IF p = "/" THEN "dir" ELSE IF p \in DOMAIN f THEN f[p] ELSE "none"

Put(f, p, kind) == [q \in DOMAIN f \cup {p} |-> IF q = p THEN kind ELSE f[q]]

\* Path.exists()
PathExists(f, p) == Kind(f, p) # "none"
\* Path.is_dir()
PathIsDir(f, p) == Kind(f, p) = "dir"

RECURSIVE AncestorIsFile(_, _)
\* a part of the path before the last one is a file
AncestorIsFile(f, p) ==
    IF p = "/" THEN FALSE
    ELSE Kind(f, PathParent(p)) \in {"empty", "data"} \/ AncestorIsFile(f, PathParent(p))

FsOp(op, p) == [op |-> op, path |-> p]

FsResult(f, err, done) == [fs |-> f, err |-> err, ops |-> done]

\* os.mkdir(p)
OsMkdir(f, p) ==
    IF AncestorIsFile(f, p) THEN FsResult(f, "NotADirectoryError", <<>>)
    ELSE IF ~PathExists(f, PathParent(p)) THEN FsResult(f, "FileNotFoundError", <<>>)
    ELSE IF PathExists(f, p) THEN FsResult(f, "FileExistsError", <<>>)
    ELSE FsResult(Put(f, p, "dir"), "", <<>>)

RECURSIVE MkdirParents(_, _)
\* Path.mkdir(parents=True, exist_ok=True)
MkdirParents(f, p) ==
    LET first == OsMkdir(f, p)
    IN IF first.err = "" THEN first
       ELSE IF first.err = "FileNotFoundError"
       THEN IF PathParent(p) = p THEN first
            ELSE LET up == MkdirParents(f, PathParent(p))
                 IN IF up.err # "" THEN up
                    ELSE LET again == OsMkdir(up.fs, p)
                         IN IF again.err \in {"FileExistsError", "NotADirectoryError"}
                               /\ PathIsDir(up.fs, p)
                            THEN FsResult(up.fs, "", <<>>)
                            ELSE again
       ELSE IF PathIsDir(f, p) THEN FsResult(f, "", <<>>)
       ELSE first

\* a variant of touch that opens with O_TRUNC: a file that is there is emptied
TouchTruncating(f, p) ==
    IF AncestorIsFile(f, p) THEN FsResult(f, "NotADirectoryError", <<>>)
    ELSE IF Kind(f, p) = "dir" THEN FsResult(f, "", <<>>)
    ELSE IF ~PathExists(f, PathParent(p)) THEN FsResult(f, "FileNotFoundError", <<>>)
    ELSE FsResult(Put(f, p, "empty"), "", <<>>)

\* Path.touch(exist_ok=True): os.utime if the path is there, else os.open(O_CREAT)
Touch(f, p) ==
    IF PathExists(f, p) /\ ~AncestorIsFile(f, p) THEN FsResult(f, "", <<>>)
    ELSE IF AncestorIsFile(f, p) THEN FsResult(f, "NotADirectoryError", <<>>)
    ELSE IF ~PathExists(f, PathParent(p)) THEN FsResult(f, "FileNotFoundError", <<>>)
    ELSE FsResult(Put(f, p, "empty"), "", <<>>)

PathSpec(path, volume_mapping, type) ==
    [path |-> path, volume_mapping |-> volume_mapping, type |-> type]

RECURSIVE CreateFolders(_, _, _)
\* for spec in path_specs: if spec.type == "folder": spec.path.mkdir(...)
CreateFolders(specs, f, done) ==
    IF Len(specs) = 0 THEN FsResult(f, "", done)
    ELSE IF Head(specs).type # "folder" THEN CreateFolders(Tail(specs), f, done)
    ELSE LET r == MkdirParents(f, Head(specs).path)
             did == Append(done, FsOp("mkdir", Head(specs).path))
         IN IF r.err # "" THEN FsResult(r.fs, r.err, did)
            ELSE CreateFolders(Tail(specs), r.fs, did)

RECURSIVE CreateFiles(_, _, _)
\* for spec in path_specs: if spec.type == "file": spec.path.touch(exist_ok=True)
CreateFiles(specs, f, done) ==
    IF Len(specs) = 0 THEN FsResult(f, "", done)
    ELSE IF Head(specs).type # "file" THEN CreateFiles(Tail(specs), f, done)
    ELSE LET r == Touch(f, Head(specs).path)
             did == Append(done, FsOp("touch", Head(specs).path))
         IN IF r.err # "" THEN FsResult(r.fs, r.err, did)
            ELSE CreateFiles(Tail(specs), r.fs, did)

\* VolumeManager.prepare_paths: the folders first, then the files
PreparePaths(specs, f) ==
    LET folders == CreateFolders(specs, f, <<>>)
    IN IF folders.err # "" THEN folders
       ELSE CreateFiles(specs, folders.fs, folders.ops)

RECURSIVE RenderVolumes(_, _, _)
RenderVolumes(specs, f, cmds) ==
    IF Len(specs) = 0 THEN [err |-> "", cmds |-> cmds]
    ELSE IF ~PathExists(f, Head(specs).path)
    THEN [err |-> "FileNotFoundError", cmds |-> <<>>]
    ELSE RenderVolumes(Tail(specs), f,
             cmds \o <<"-v", Head(specs).path \o ":" \o Head(specs).volume_mapping>>)

RECURSIVE RenderExisting(_, _, _)
RenderExisting(specs, f, cmds) ==
    IF Len(specs) = 0 THEN [err |-> "", cmds |-> cmds]
    ELSE IF ~PathExists(f, Head(specs).path) THEN RenderExisting(Tail(specs), f, cmds)
    ELSE RenderExisting(Tail(specs), f,
             cmds \o <<"-v", Head(specs).path \o ":" \o Head(specs).volume_mapping>>)

\* a variant of get_volume_commands that leaves a missing source out
GetVolumeCommandsSkipMissing(specs, f) == RenderExisting(specs, f, <<>>)

\* VolumeManager.get_volume_commands
GetVolumeCommands(specs, f) == RenderVolumes(specs, f, <<>>)

\* a variant of the PathSpec list with .gemini before .claude.json
RunPathSpecsReordered(app_path, home_path) ==
    << PathSpec(app_path, "/app", "folder"),
       PathSpec(PathJoin(home_path, ".claude"),
                PathJoin(IMAGE_HOME_FOLDER, ".claude"), "folder"),
       PathSpec(PathJoin(home_path, ".gemini"),
                PathJoin(IMAGE_HOME_FOLDER, ".gemini"), "folder"),
       PathSpec(PathJoin(home_path, ".claude.json"),
                PathJoin(IMAGE_HOME_FOLDER, ".claude.json"), "file"),
       PathSpec(PathJoin(home_path, ".codex"),
                PathJoin(IMAGE_HOME_FOLDER, ".codex"), "folder"),
       PathSpec(PathJoin(home_path, ".copilot"),
                PathJoin(IMAGE_HOME_FOLDER, ".copilot"), "folder") >>

\* run_container: the six PathSpecs, lines 251-262
RunPathSpecs(app_path, home_path) ==
    << PathSpec(app_path, "/app", "folder"),
       PathSpec(PathJoin(home_path, ".claude"),
                PathJoin(IMAGE_HOME_FOLDER, ".claude"), "folder"),
       PathSpec(PathJoin(home_path, ".claude.json"),
                PathJoin(IMAGE_HOME_FOLDER, ".claude.json"), "file"),
       PathSpec(PathJoin(home_path, ".gemini"),
                PathJoin(IMAGE_HOME_FOLDER, ".gemini"), "folder"),
       PathSpec(PathJoin(home_path, ".codex"),
                PathJoin(IMAGE_HOME_FOLDER, ".codex"), "folder"),
       PathSpec(PathJoin(home_path, ".copilot"),
                PathJoin(IMAGE_HOME_FOLDER, ".copilot"), "folder") >>

----------------------------------------------------------------------------
(* Container names *)

\* name.startswith(CONTAINER_NAME_BASE + "-")
IsOurs(name) == StartsWith(name, CONTAINER_NAME_BASE \o "-")

RECURSIVE FilterOurs(_)
FilterOurs(names) ==
    IF Len(names) = 0 THEN <<>>
    ELSE (IF IsOurs(Head(names)) THEN <<Head(names)>> ELSE <<>>) \o FilterOurs(Tail(names))

\* a variant of get_running_containers that reports nothing running
NoRunningContainers(output) == <<>>

\* a variant of get_running_containers that does not sort
RunningContainersUnsorted(output) == FilterOurs(output)

\* get_running_containers, given the lines docker ps printed
RunningContainers(output) == Sorted(FilterOurs(output))

\* f"{CONTAINER_NAME_BASE}-{folder}-{suffix:02d}": the suffix zero-padded to a
\* width of two
CandidateName(folder, suffix) ==
    CONTAINER_NAME_BASE \o "-" \o folder \o "-"
        \o (IF Len(Str(suffix)) < 2 THEN "0" \o Str(suffix) ELSE Str(suffix))

RECURSIVE NextFreeFrom(_, _, _)
NextFreeFrom(folder, running_containers, suffix) ==
    IF ~Contains(running_containers, CandidateName(folder, suffix))
    THEN CandidateName(folder, suffix)
    ELSE NextFreeFrom(folder, running_containers, suffix + 1)

\* a variant of get_next_free_container_name that counts from 0
NextFreeFromZero(folder, running_containers) ==
    NextFreeFrom(folder, running_containers, 0)

\* get_next_free_container_name, given the running containers: suffix = 1, 2, ...
NextFreeContainerName(folder, running_containers) ==
    NextFreeFrom(folder, running_containers, 1)

\* what one docker ps invocation leads to in get_running_containers
ListContainers(found, rc, output) ==
    IF ~found
    THEN [exit |-> TRUE, running |-> <<>>,
          records |-> <<LogRecord("ERROR",
              "Docker not found. Please ensure Docker is installed and in PATH")>>]
    ELSE IF rc # 0
    THEN [exit |-> TRUE, running |-> <<>>,
          records |-> <<LogRecord("ERROR",
              "Failed to get running containers with exit code " \o Str(rc))>>]
    ELSE [exit |-> FALSE, running |-> RunningContainers(output), records |-> <<>>]

PsArgv == <<"docker", "ps", "--format", "{{.Names}}">>

\* raise ValueError("No running containers found!"), line 212
NoContainers == "ValueError: No running containers found!"
\* what int() raises for a string it cannot parse, line 229
InvalidLiteral == "ValueError: invalid literal for int() with base 10"

\* what prompt_container_name does with the line read, lines 223-235
SelectContainer(listed, text) ==
    LET name == Strip(text)
    IN IF name = "" THEN [kind |-> "return", name |-> listed[1]]
       ELSE IF Contains(listed, name) THEN [kind |-> "return", name |-> name]
       ELSE IF IsDigit(name)
            THEN IF ~ParseInt(name).ok THEN [kind |-> "raise", name |-> InvalidLiteral]
                 ELSE IF 0 <= ParseInt(name).value /\ ParseInt(name).value < Len(listed)
                 THEN [kind |-> "return", name |-> listed[ParseInt(name).value + 1]]
                 ELSE [kind |-> "again",
                       name |-> "Invalid number. Please enter a number between 0 and "
                                \o Str(Len(listed) - 1) \o "."]
       ELSE [kind |-> "again",
             name |-> "Invalid input. Please enter a valid container name or number."]

----------------------------------------------------------------------------
(* The commands *)

\* RunParameters.from_args
RunParameters(image_name, a, cmd) ==
    [image_name |-> image_name,
     app_folder |-> IF cmd = "." THEN "." ELSE a.app_folder,
     home_folder |-> a.home, memory |-> a.memory, cpus |-> a.cpus, root |-> a.root]

\* run_container: the docker run command, lines 273-291
RunCommand(params, name, mounts) ==
    <<"docker", "run", "-it", "--rm", "--memory", params.memory, "--cpus", params.cpus,
      "--hostname", name, "--name", name>>
    \o (IF params.root THEN <<"--user", "root">> ELSE <<>>)
    \o mounts \o <<params.image_name>>

\* attach_container: the docker exec command, lines 325-330
ExecCommand(root, name) ==
    <<"docker", "exec", "-it">> \o (IF root THEN <<"--user", "root">> ELSE <<>>)
    \o <<name, "/bin/bash">>

DockerNotFound ==
    LogRecord("ERROR", "Docker not found. Please ensure Docker is installed and in PATH")

\* the working directory of the process
Cwd == "/w/a"

----------------------------------------------------------------------------
(* Bounds and inputs *)

\* how many lines the prompt may read in one run of the model
MaxReads == 2
\* how many times the environment may interfere in one run of the model
MaxEnv == 1
\* the longest run of consecutive suffixes in a listing of the model
MaxRunning == 10
\* the longest PathSpec list of the prepare_paths specification
MaxSpecs == 2

WithChoices ==
    {None, Some(""), Some(","), Some("rust"), Some("claude,rust"), Some(" rust , claude"),
     Some("rust,bogus"), Some("rust claude"), Some("gemini,,"),
     Some("claude,codex,copilot,gemini,opencode,rust")}

WithoutChoices == {None, Some(""), Some("gemini"), Some("bogus"), Some("rust, codex")}

VersionChoices ==
    {[c \in Components |-> None],
     [c \in Components |-> IF c = "node" THEN Some("20")
                           ELSE IF c = "uv" THEN Some("") ELSE None]}

UnknownChoices == {<<>>, <<"--label", "a b">>}

AppFolders == {"./app", "/w/foo", "..", "/"}

Homes == {"/h", "h"}

\* ccd-a-01 .. ccd-a-n, the highest first
RECURSIVE Consecutive(_)
Consecutive(n) == IF n = 0 THEN <<>> ELSE <<CandidateName("a", n)>> \o Consecutive(n - 1)

PsOutputs ==
    {<<>>, <<"web">>, <<"ccd-a-01">>, <<"ccd-a-02", "web", "ccd-a-01">>,
     <<"ccd-b-01", "ccd-a-02">>, <<"ccd-a-03", "ccd-a-01", "ccdx", "ccd-app-01">>,
     <<"ccd--01", "ccd-w-01", "ccd-foo-02", "ccd-foo-01">>,
     Consecutive(MaxRunning - 1), Consecutive(MaxRunning)}

InputLines ==
    {"", "  ", "ccd-a-02", " ccd-b-01 ", "ccd-zz-01", "0", "1", "01", " 2\t", "7", "-1",
     "x", "²", "1²"}

\* what input() gives: a line, or the end of the input
Inputs == {[eof |-> FALSE, text |-> t] : t \in InputLines} \cup {[eof |-> TRUE, text |-> ""]}

\* the paths of the model's host filesystem for one app path and one home path
HomeChildren(h) ==
    {PathJoin(h, n) : n \in {".claude", ".claude.json", ".gemini", ".codex", ".copilot"}}

RECURSIVE Ancestors(_)
Ancestors(p) == IF p = "/" THEN {} ELSE {PathParent(p)} \cup Ancestors(PathParent(p))

FsPaths(a, h) ==
    ((Ancestors(Cwd) \cup {Cwd} \cup Ancestors(a) \cup {a} \cup Ancestors(h) \cup {h})
        \ {"/"}) \cup HomeChildren(h)

\* a filesystem in which the working directory exists, a and h are of the kinds
\* given and the children of h are as `children` says
FsWith(a, h, kind_a, kind_h, children) ==
    [q \in FsPaths(a, h) |->
        IF q \in Ancestors(Cwd) \cup {Cwd} THEN "dir"
        ELSE IF q = a THEN kind_a
        ELSE IF q \in Ancestors(a) THEN "dir"
        ELSE IF q = h THEN kind_h
        ELSE IF q \in Ancestors(h) THEN "dir"
        ELSE IF kind_h = "dir" THEN children[PathName(q)] ELSE "none"]

ChildKinds(claude, json, others) ==
    [n \in {".claude", ".claude.json", ".gemini", ".codex", ".copilot"} |->
        IF n = ".claude" THEN claude ELSE IF n = ".claude.json" THEN json ELSE others]

\* the filesystems a run starts from
InitialFs(a, h) ==
    {FsWith(a, h, "none", "none", ChildKinds("none", "none", "none")),
     FsWith(a, h, "dir", "dir", ChildKinds("none", "none", "none")),
     FsWith(a, h, "dir", "dir", ChildKinds("dir", "data", "dir")),
     FsWith(a, h, "dir", "dir", ChildKinds("dir", "empty", "dir")),
     FsWith(a, h, "data", "dir", ChildKinds("dir", "data", "dir")),
     FsWith(a, h, "dir", "data", ChildKinds("none", "none", "none")),
     FsWith(a, h, "none", "dir", ChildKinds("empty", "none", "none")),
     FsWith(a, h, "dir", "dir", ChildKinds("dir", "dir", "none")),
     FsWith(a, h, "none", "dir", ChildKinds("none", "data", "none")),
     FsWith(a, h, "dir", "dir", ChildKinds("dir", "none", "data"))}

Arguments(with, without, versions, app_folder, home, root) ==
    [with_features |-> with, without_features |-> without, versions |-> versions,
     app_folder |-> app_folder, home |-> home, memory |-> "1g", cpus |-> "2",
     root |-> root]

NoHist == [fs0 |-> <<>>, fs1 |-> <<>>, err1 |-> "", ops1 |-> <<>>]

----------------------------------------------------------------------------
(* The process *)

InitLocals ==
    /\ calls = <<>>
    /\ log = <<>>
    /\ status = NoStatus
    /\ exc = ""
    /\ interrupted = ""
    /\ docker_arg_list = <<>>
    /\ volume_cmds = <<>>
    /\ container_name = ""
    /\ running = <<>>
    /\ line = None
    /\ reads = 0
    /\ ops = <<>>
    /\ env = 0

InitBuild ==
    /\ command = "build"
    /\ pc = "main"
    /\ \E w \in WithChoices, wo \in WithoutChoices, v \in VersionChoices :
           args = Arguments(w, wo, v, "./app", "/h", FALSE)
    /\ unknown \in UnknownChoices
    /\ fs = FsWith("/w/a/app", "/h", "none", "none", ChildKinds("none", "none", "none"))
    /\ ps = <<>>
    /\ hist = NoHist

\* `ccd run [app_folder]`, or `ccd .` (which has no app_folder argument)
RunInvocations ==
    {[command |-> "run", app_folder |-> app] : app \in AppFolders}
    \cup {[command |-> ".", app_folder |-> "./app"]}

InitRun ==
    /\ \E inv \in RunInvocations, home \in Homes, root \in BOOLEAN :
           /\ command = inv.command
           /\ args = Arguments(None, None, [c \in Components |-> None],
                               inv.app_folder, home, root)
           /\ fs \in InitialFs(Resolve(IF inv.command = "." THEN "." ELSE inv.app_folder, Cwd),
                               Resolve(home, Cwd))
    /\ pc = "main"
    /\ unknown = <<>>
    /\ ps \in PsOutputs
    /\ hist = [NoHist EXCEPT !.fs0 = fs]

InitAttach ==
    /\ command = "attach"
    /\ pc = "main"
    /\ \E root \in BOOLEAN :
           args = Arguments(None, None, [c \in Components |-> None], "./app", "/h", root)
    /\ unknown = <<>>
    /\ fs = FsWith("/w/a/app", "/h", "none", "none", ChildKinds("none", "none", "none"))
    /\ ps \in PsOutputs
    /\ hist = NoHist

Init == InitLocals /\ path_specs = <<>> /\ (InitBuild \/ InitRun \/ InitAttach)

\* main, lines 394-403 and 455-465: the arguments are parsed, logging is set up,
\* the try is entered and the command is dispatched
Dispatch ==
    /\ pc = "main"
    /\ pc' = IF command = "build" THEN "build_args"
             ELSE IF command = "attach" THEN "attach_prompt"
             ELSE "run_prepare"
    /\ UNCHANGED <<command, args, unknown, fs, ps, calls, log, status, exc, interrupted,
                   docker_arg_list, path_specs, volume_cmds, container_name, running, line,
                   reads, ops, env, hist>>

\* main, lines 403-453: the build arguments, or the exit on a usage error
BuildArgs ==
    /\ pc = "build_args"
    /\ LET r == ResolveBuildArgs(args, unknown)
       IN /\ docker_arg_list' = r.list
          /\ IF r.exit THEN Exit(ExitFailure, r.records)
             ELSE pc' = "build_image" /\ UNCHANGED <<status, log, exc>>
    /\ UNCHANGED <<command, args, unknown, fs, ps, calls, interrupted, path_specs,
                   volume_cmds, container_name, running, line, reads, ops, env, hist>>

\* what build_image does when the build returns rc, or when the shell it is run
\* under (shell=True) is not found, lines 85-94
BuildOutcome(found, rc) ==
    IF ~found THEN [status |-> ExitFailure, records |-> <<DockerNotFound>>]
    ELSE IF rc # 0
    THEN [status |-> ExitFailure,
          records |-> <<LogRecord("ERROR", "Build failed with exit code " \o Str(rc))>>]
    ELSE [status |-> ExitSuccess,
          records |-> <<LogRecord("INFO", "Build completed successfully!")>>]

\* build_image, lines 75-94: the build runs under /bin/sh (shell=True)
BuildImage ==
    /\ pc = "build_image"
    /\ \E found \in BOOLEAN, rc \in EngineExitCodes \cup {ShellNotFound} :
          /\ calls' = Append(calls,
                 Call("build",
                      <<"/bin/sh", "-c", BuildCommand(IMAGE_NAME, DockerArgs(docker_arg_list))>>,
                      IF found THEN rc ELSE NoStatus))
          /\ Exit(BuildOutcome(found, rc).status, BuildOutcome(found, rc).records)
    /\ UNCHANGED <<command, args, unknown, fs, ps, interrupted, docker_arg_list, path_specs,
                   volume_cmds, container_name, running, line, reads, ops, env, hist>>

\* run_container, lines 238-265: the paths resolved and prepared
RunPrepare ==
    /\ pc = "run_prepare"
    /\ LET params == RunParameters(IMAGE_NAME, args, command)
           specs == RunPathSpecs(Resolve(params.app_folder, Cwd),
                                 Resolve(params.home_folder, Cwd))
           r == PreparePaths(specs, fs)
       IN /\ path_specs' = specs
          /\ fs' = r.fs
          /\ ops' = r.ops
          /\ hist' = [hist EXCEPT !.fs1 = r.fs, !.err1 = r.err, !.ops1 = r.ops]
          /\ IF r.err # "" THEN Raise(r.err)
             ELSE pc' = "run_render" /\ UNCHANGED <<status, log, exc>>
    /\ UNCHANGED <<command, args, unknown, ps, calls, interrupted, docker_arg_list,
                   volume_cmds, container_name, running, line, reads, env>>

\* p and everything below it
Subtree(f, p) == {q \in DOMAIN f : q = p \/ StartsWith(q, p \o "/")}

\* the environment: another process removes a mount source after it was prepared
EnvVanish ==
    /\ pc = "run_render"
    /\ env < MaxEnv
    /\ \E i \in 1..Len(path_specs) :
          /\ path_specs[i].path # "/"
          /\ PathExists(fs, path_specs[i].path)
          /\ fs' = [q \in DOMAIN fs |->
                       IF q \in Subtree(fs, path_specs[i].path) THEN "none" ELSE fs[q]]
    /\ env' = env + 1
    /\ UNCHANGED <<command, args, unknown, pc, ps, calls, log, status, exc, interrupted,
                   docker_arg_list, path_specs, volume_cmds, container_name, running, line,
                   reads, ops, hist>>

\* run_container, line 266: the mount flags rendered
RunRender ==
    /\ pc = "run_render"
    /\ LET r == GetVolumeCommands(path_specs, fs)
       IN /\ volume_cmds' = r.cmds
          /\ IF r.err # "" THEN Raise(r.err)
             ELSE pc' = "run_name" /\ UNCHANGED <<status, log, exc>>
    /\ UNCHANGED <<command, args, unknown, fs, ps, calls, interrupted, docker_arg_list,
                   path_specs, container_name, running, line, reads, ops, env, hist>>

\* run_container, line 268: get_next_free_container_name(app_path.name)
RunName ==
    /\ pc = "run_name"
    /\ \E found \in BOOLEAN, rc \in EngineExitCodes :
          LET r == ListContainers(found, rc, ps)
          IN /\ calls' = Append(calls, Call("ps", PsArgv, IF found THEN rc ELSE NoStatus))
             /\ IF r.exit
                THEN Exit(ExitFailure, r.records) /\ UNCHANGED <<container_name, running>>
                ELSE /\ running' = r.running
                     /\ container_name' =
                            NextFreeContainerName(PathName(path_specs[1].path), r.running)
                     /\ pc' = "run_exec"
                     /\ UNCHANGED <<status, log, exc>>
    /\ UNCHANGED <<command, args, unknown, fs, ps, interrupted, docker_arg_list, path_specs,
                   volume_cmds, line, reads, ops, env, hist>>

\* what run_container does when docker run returns, lines 301-314
RunOutcome(found, rc) ==
    IF ~found THEN [status |-> ExitFailure, records |-> <<DockerNotFound>>]
    ELSE IF rc # 0
    THEN [status |-> ExitFailure,
          records |-> <<LogRecord("ERROR", "Container run failed with exit code " \o Str(rc))>>]
    ELSE [status |-> ExitSuccess,
          records |-> <<LogRecord("INFO", "Container execution completed successfully")>>]

\* run_container, lines 270-314: docker run
RunExec ==
    /\ pc = "run_exec"
    /\ \E found \in BOOLEAN, rc \in EngineExitCodes :
          /\ calls' = Append(calls,
                 Call("run",
                      RunCommand(RunParameters(IMAGE_NAME, args, command),
                                 container_name, volume_cmds),
                      IF found THEN rc ELSE NoStatus))
          /\ Exit(RunOutcome(found, rc).status, RunOutcome(found, rc).records)
    /\ UNCHANGED <<command, args, unknown, fs, ps, interrupted, docker_arg_list, path_specs,
                   volume_cmds, container_name, running, line, reads, ops, env, hist>>

\* the environment: containers start and stop while the prompt loop runs
EngineChange ==
    /\ pc \in {"attach_prompt", "attach_input"}
    /\ env < MaxEnv
    /\ ps' \in PsOutputs \ {ps}
    /\ env' = env + 1
    /\ UNCHANGED <<command, args, unknown, pc, fs, calls, log, status, exc, interrupted,
                   docker_arg_list, path_specs, volume_cmds, container_name, running, line,
                   reads, ops, hist>>

\* prompt_container_name, lines 208-221: one turn of the loop up to input():
\* the containers are listed; none raises, one is returned, several are shown
AttachPrompt ==
    /\ pc = "attach_prompt"
    /\ \E found \in BOOLEAN, rc \in EngineExitCodes :
          LET r == ListContainers(found, rc, ps)
          IN /\ calls' = Append(calls, Call("ps", PsArgv, IF found THEN rc ELSE NoStatus))
             /\ IF r.exit
                THEN Exit(ExitFailure, r.records) /\ UNCHANGED <<container_name, running>>
                ELSE /\ running' = r.running
                     /\ IF Len(r.running) = 0
                        THEN Raise(NoContainers) /\ UNCHANGED container_name
                        ELSE IF Len(r.running) = 1
                        THEN /\ container_name' = r.running[1]
                             /\ pc' = "attach_exec"
                             /\ UNCHANGED <<status, log, exc>>
                        ELSE /\ reads < MaxReads
                             /\ pc' = "attach_input"
                             /\ UNCHANGED <<status, log, exc, container_name>>
    /\ UNCHANGED <<command, args, unknown, fs, ps, interrupted, docker_arg_list, path_specs,
                   volume_cmds, line, reads, ops, env, hist>>

\* prompt_container_name, lines 223-235: input() returns a line, or the input ends;
\* the line selects a container or the loop turns again
AttachInput ==
    /\ pc = "attach_input"
    /\ reads' = reads + 1
    /\ \E in \in Inputs :
          IF in.eof
          THEN Raise("EOFError") /\ UNCHANGED <<container_name, line>>
          ELSE LET sel == SelectContainer(running, in.text)
               IN /\ line' = Some(in.text)
                  /\ IF sel.kind = "raise"
                     THEN Raise(sel.name) /\ UNCHANGED container_name
                     ELSE IF sel.kind = "return"
                     THEN /\ container_name' = sel.name
                          /\ pc' = "attach_exec"
                          /\ UNCHANGED <<status, log, exc>>
                     ELSE /\ pc' = "attach_prompt"
                          /\ log' = Append(log, LogRecord("stdout", sel.name))
                          /\ UNCHANGED <<status, exc, container_name>>
    /\ UNCHANGED <<command, args, unknown, fs, ps, calls, interrupted, docker_arg_list,
                   path_specs, volume_cmds, running, ops, env, hist>>

\* what attach_container does when docker exec returns, lines 335-343:
\* subprocess.run(cmd) without check=True raises no CalledProcessError
ExecOutcome(found, rc) ==
    IF ~found THEN [status |-> ExitFailure, records |-> <<DockerNotFound>>]
    ELSE [status |-> ExitSuccess, records |-> <<>>]

\* attach_container, lines 323-343: docker exec
AttachExec ==
    /\ pc = "attach_exec"
    /\ \E found \in BOOLEAN, rc \in EngineExitCodes :
          /\ calls' = Append(calls,
                 Call("exec", ExecCommand(args.root, container_name),
                      IF found THEN rc ELSE NoStatus))
          /\ Exit(ExecOutcome(found, rc).status, ExecOutcome(found, rc).records)
    /\ UNCHANGED <<command, args, unknown, fs, ps, interrupted, docker_arg_list, path_specs,
                   volume_cmds, container_name, running, line, reads, ops, env, hist>>

\* run_container, lines 309-311: except KeyboardInterrupt around docker run
RunOnInterrupt ==
    [status |-> ExitSuccess, records |-> <<LogRecord("INFO", "Container stopped by user")>>]

\* a variant of main without the handler: the interrupt ends the process as an error
MainWithoutHandler == [status |-> ExitFailure, records |-> <<>>]

\* main, lines 466-468: except KeyboardInterrupt around every command
MainOnInterrupt ==
    [status |-> ExitSuccess,
     records |-> <<LogRecord("stdout", "\nOperation cancelled by user")>>]

\* the engine invocation a KeyboardInterrupt at `at` interrupts: none when it is
\* raised before subprocess.run is called, else the call, which has no status
InterruptedCall(at, during) ==
    IF ~during THEN <<>>
    ELSE IF at = "build_image"
    THEN <<Call("build",
                <<"/bin/sh", "-c", BuildCommand(IMAGE_NAME, DockerArgs(docker_arg_list))>>,
                NoStatus)>>
    ELSE IF at \in {"run_name", "attach_prompt"}
    THEN <<Call("ps", PsArgv, NoStatus)>>
    ELSE IF at = "run_exec"
    THEN <<Call("run", RunCommand(RunParameters(IMAGE_NAME, args, command),
                                  container_name, volume_cmds), NoStatus)>>
    ELSE IF at = "attach_exec"
    THEN <<Call("exec", ExecCommand(args.root, container_name), NoStatus)>>
    ELSE <<>>

\* a KeyboardInterrupt raised outside every try: the traceback, and the process
\* ends as one killed by the interrupt
Uncaught == [status |-> KeyboardInterruptStatus, records |-> <<>>]

\* the beginnings of a sequence: what was done of it when the interrupt came
Prefixes(seq) == {SubSeq(seq, 1, k) : k \in 0..Len(seq)}

RECURSIVE MkdirStates(_, _)
\* the filesystems Path.mkdir(parents=True, exist_ok=True) passes through: the
\* missing parents are made one os.mkdir at a time, the outermost first
MkdirStates(f, p) ==
    LET first == OsMkdir(f, p)
    IN IF first.err = "" THEN {f, first.fs}
       ELSE IF first.err = "FileNotFoundError" /\ PathParent(p) # p
       THEN LET up == MkdirParents(f, PathParent(p))
            IN MkdirStates(f, PathParent(p))
               \cup (IF up.err = "" THEN {OsMkdir(up.fs, p).fs} ELSE {})
       ELSE {f}

RECURSIVE PreparedSoFar(_, _, _)
\* how far prepare_paths can be when it is interrupted: the mkdir and touch calls
\* begun, and the filesystem they have left, the last call maybe unfinished
PreparedSoFar(todo, f, begun) ==
    {[ops |-> begun, fs |-> f]}
    \cup (IF Len(todo) = 0 THEN {}
          ELSE LET path == Head(todo).path
                   r == IF Head(todo).op = "mkdir" THEN MkdirParents(f, path)
                        ELSE Touch(f, path)
               IN {[ops |-> Append(begun, Head(todo)), fs |-> g] :
                      g \in (IF Head(todo).op = "mkdir" THEN MkdirStates(f, path)
                             ELSE {f, r.fs})}
                  \cup (IF r.err = "" THEN PreparedSoFar(Tail(todo), r.fs, Append(begun, Head(todo)))
                        ELSE {}))

\* where a step is when the interrupt comes: the engine calls it has made, the
\* records it has logged, the handler the interrupt reaches, and the state it
\* has written; what it has not written is as before
Cut(made, logged, handler) ==
    [calls |-> made, log |-> logged, handler |-> handler,
     running |-> running, line |-> line, reads |-> reads, fs |-> fs, ops |-> ops,
     path_specs |-> path_specs, docker_arg_list |-> docker_arg_list]

\* before the blocking call of the place is made, or while it waits.  The try of
\* run_container (lines 301-304) is entered before docker run is invoked, so its
\* handler (309-311) also catches an interrupt raised at line 302 or at line 303
\* before the call is made; on the lines of run_container before the try, and
\* everywhere else, the handler is main's
CutsAtCall(at) ==
    {Cut(<<>>, <<>>, MainOnInterrupt)}
    \cup {Cut(made, <<>>, IF at = "run_exec" THEN RunOnInterrupt ELSE MainOnInterrupt) :
             made \in {InterruptedCall(at, TRUE)} \cup (IF at = "run_exec" THEN {<<>>} ELSE {})}

\* main, lines 405-453: the list is extended piece by piece, the messages of a
\* usage error are logged one by one
CutsInBuildArgs ==
    LET r == ResolveBuildArgs(args, unknown)
        pieces == {0} \cup {k \in Len(unknown)..Len(r.list) : (k - Len(unknown)) % 2 = 0}
    IN {[Cut(<<>>, logged, MainOnInterrupt) EXCEPT !.docker_arg_list = SubSeq(r.list, 1, k)] :
           logged \in Prefixes(r.records), k \in pieces}

\* build_image, lines 77-94, and main after it: also after the build has returned
\* or the shell was not found
CutsInBuildImage ==
    CutsAtCall("build_image")
    \cup UNION {{Cut(<<Call("build",
                         <<"/bin/sh", "-c",
                           BuildCommand(IMAGE_NAME, DockerArgs(docker_arg_list))>>,
                         IF found THEN rc ELSE NoStatus)>>,
                     logged, MainOnInterrupt) :
                    logged \in Prefixes(BuildOutcome(found, rc).records)} :
                 found \in BOOLEAN, rc \in EngineExitCodes \cup {ShellNotFound}}

\* run_container, lines 240-265 (and lines 38-47 of the older script): the paths
\* of the list made so far
CutsInPrepare(specs, handler) ==
    {Cut(<<>>, <<>>, handler)}
    \cup {[Cut(<<>>, <<>>, handler) EXCEPT
             !.path_specs = specs, !.ops = s.ops, !.fs = s.fs] :
             s \in PreparedSoFar(PreparePaths(specs, fs).ops, fs, <<>>)}

\* get_running_containers, lines 174-189: also after docker ps has returned,
\* before and after the list is handed back
CutsInListing(at) ==
    CutsAtCall(at)
    \cup UNION {LET r == ListContainers(found, rc, ps)
                    made == <<Call("ps", PsArgv, IF found THEN rc ELSE NoStatus)>>
                IN IF r.exit
                   THEN {Cut(made, logged, MainOnInterrupt) : logged \in Prefixes(r.records)}
                   ELSE {Cut(made, <<>>, MainOnInterrupt),
                         [Cut(made, <<>>, MainOnInterrupt) EXCEPT !.running = r.running]} :
                found \in BOOLEAN, rc \in EngineExitCodes}

\* run_container, lines 270-314: after docker run has returned 0 the interrupt is
\* inside the try until the function returns; inside the except clauses it is not
CutsInRunExec ==
    CutsAtCall("run_exec")
    \cup UNION {LET made == <<Call("run",
                                   RunCommand(RunParameters(IMAGE_NAME, args, command),
                                              container_name, volume_cmds),
                                   IF found THEN rc ELSE NoStatus)>>
                    done == RunOutcome(found, rc).records
                IN {Cut(made, logged,
                        IF found /\ rc = 0 THEN RunOnInterrupt ELSE MainOnInterrupt) :
                       logged \in Prefixes(done)}
                   \cup {Cut(made, done, MainOnInterrupt)} :
                found \in BOOLEAN, rc \in EngineExitCodes}

\* prompt_container_name, lines 223-224: input() not called, waiting, or returned
\* with a line that is not looked at yet
CutsInInput ==
    {Cut(<<>>, <<>>, MainOnInterrupt),
     [Cut(<<>>, <<>>, MainOnInterrupt) EXCEPT !.reads = reads + 1]}
    \cup {[Cut(<<>>, <<>>, MainOnInterrupt) EXCEPT !.reads = reads + 1, !.line = Some(t)] :
             t \in InputLines}

\* attach_container, lines 323-343: also after docker exec has returned
CutsInAttachExec ==
    CutsAtCall("attach_exec")
    \cup UNION {{Cut(<<Call("exec", ExecCommand(args.root, container_name),
                           IF found THEN rc ELSE NoStatus)>>,
                     logged, MainOnInterrupt) :
                    logged \in Prefixes(ExecOutcome(found, rc).records)} :
                 found \in BOOLEAN, rc \in EngineExitCodes}

\* the places of the step at `at` where a KeyboardInterrupt can be raised.  Outside
\* the body of main's try nothing catches it: before the try (lines 394-401), and
\* once the command has ended, while its SystemExit or its exception passes the
\* except clause of line 466 or after the try is left
Cuts(at) ==
    IF at \in {"main", "exited"} THEN {Cut(<<>>, <<>>, Uncaught)}
    ELSE IF at = "build_args" THEN CutsInBuildArgs
    ELSE IF at = "build_image" THEN CutsInBuildImage
    ELSE IF at = "run_prepare"
    THEN CutsInPrepare(
             RunPathSpecs(Resolve(RunParameters(IMAGE_NAME, args, command).app_folder, Cwd),
                          Resolve(RunParameters(IMAGE_NAME, args, command).home_folder, Cwd)),
             MainOnInterrupt)
    ELSE IF at \in {"run_name", "attach_prompt"} THEN CutsInListing(at)
    ELSE IF at = "run_exec" THEN CutsInRunExec
    ELSE IF at = "attach_input" THEN CutsInInput
    ELSE IF at = "attach_exec" THEN CutsInAttachExec
    ELSE CutsAtCall(at)

\* the user presses Ctrl-C once: KeyboardInterrupt is raised where the process is,
\* at any line of the step it is in, or while the ended command leaves main
Interrupt ==
    /\ interrupted = ""
    /\ interrupted' = pc
    /\ \E c \in Cuts(pc) :
          /\ calls' = calls \o c.calls
          /\ running' = c.running
          /\ line' = c.line
          /\ reads' = c.reads
          /\ fs' = c.fs
          /\ ops' = c.ops
          /\ path_specs' = c.path_specs
          /\ docker_arg_list' = c.docker_arg_list
          /\ pc' = "exited"
          /\ status' = c.handler.status
          /\ log' = log \o c.log \o c.handler.records
          /\ exc' = IF c.handler = Uncaught THEN "KeyboardInterrupt" ELSE exc
    /\ UNCHANGED <<command, args, unknown, ps, volume_cmds, container_name, env, hist>>

Next ==
    \/ Dispatch
    \/ BuildArgs
    \/ BuildImage
    \/ RunPrepare
    \/ EnvVanish
    \/ RunRender
    \/ RunName
    \/ RunExec
    \/ EngineChange
    \/ AttachPrompt
    \/ AttachInput
    \/ AttachExec
    \/ Interrupt

Spec == Init /\ [][Next]_vars

----------------------------------------------------------------------------
(* prepare_paths on its own: any PathSpec list, any filesystem, run twice *)

GenericPaths == {"/d", "/d/e", "/d/e/f", "/g"}

\* nothing is there unless its parent is a directory
WellFormed(f) == \A q \in DOMAIN f : f[q] # "none" => PathIsDir(f, PathParent(q))

GenericFs == {f \in [GenericPaths -> {"none", "dir", "empty", "data"}] : WellFormed(f)}

GenericSpecs ==
    UNION {[1..n -> {PathSpec(q, "/mnt", t) : q \in GenericPaths, t \in {"folder", "file"}}]
              : n \in 0..MaxSpecs}

InitPrepare ==
    /\ InitLocals
    /\ command = "run"
    /\ args = Arguments(None, None, [c \in Components |-> None], "./app", "/h", FALSE)
    /\ unknown = <<>>
    /\ ps = <<>>
    /\ pc = "prepare_first"
    /\ fs \in GenericFs
    /\ path_specs \in GenericSpecs
    /\ hist = [NoHist EXCEPT !.fs0 = fs]

\* volume_manager.prepare_paths(), the first time
PrepareFirst ==
    /\ pc = "prepare_first"
    /\ LET r == PreparePaths(path_specs, fs)
       IN /\ fs' = r.fs
          /\ ops' = r.ops
          /\ exc' = r.err
          /\ hist' = [hist EXCEPT !.fs1 = r.fs, !.err1 = r.err, !.ops1 = r.ops]
    /\ pc' = "prepare_again"
    /\ UNCHANGED <<command, args, unknown, ps, calls, log, status, interrupted,
                   docker_arg_list, path_specs, volume_cmds, container_name, running, line,
                   reads, env>>

\* volume_manager.prepare_paths(), again on what the first run left
PrepareAgain ==
    /\ pc = "prepare_again"
    /\ LET r == PreparePaths(path_specs, fs)
       IN /\ fs' = r.fs
          /\ ops' = r.ops
          /\ exc' = r.err
    /\ pc' = "prepared"
    /\ UNCHANGED <<command, args, unknown, ps, calls, log, status, interrupted,
                   docker_arg_list, path_specs, volume_cmds, container_name, running, line,
                   reads, env, hist>>

NextPrepare == PrepareFirst \/ PrepareAgain

SpecPrepare == InitPrepare /\ [][NextPrepare]_vars

----------------------------------------------------------------------------
(* Two run invocations for the same project folder, side by side.  The two *)
(* processes share the engine (ps), the filesystem and the terminal (log); *)
(* pc, status, running and container_name hold one value per invocation.   *)
(* Both were given the same command line and both have prepared the paths  *)
(* and rendered the mount flags (lines 243-266); each is about to choose   *)
(* its container name (line 268).  The engine is a process of its own: it  *)
(* answers a listing before docker ps returns to the invocation, and it    *)
(* removes an ended container before docker run returns.                   *)

Invocations == {"first", "second"}

\* what is remembered of one invocation: whether the engine has answered its
\* docker ps, and with which names; which invocations had started a container,
\* and had it running, at that moment; whether docker ps has returned the list
\* to it; whether its own docker run has started a container; whether that
\* container has ended, and with which status
NotListed ==
    [asked |-> FALSE, answer |-> <<>>, started |-> {}, live |-> {}, listed |-> FALSE,
     began |-> FALSE, ended |-> FALSE, rc |-> NoStatus]

\* the names the engine holds
EngineNames == {ps[k] : k \in 1..Len(ps)}

\* docker run --rm: the container is removed when it exits
RECURSIVE Without(_, _)
Without(names, name) ==
    IF Len(names) = 0 THEN <<>>
    ELSE (IF Head(names) = name THEN <<>> ELSE <<Head(names)>>) \o Without(Tail(names), name)

InitRace ==
    /\ \E inv \in RunInvocations, home \in Homes, root \in BOOLEAN :
          LET params == RunParameters(IMAGE_NAME,
                            Arguments(None, None, [c \in Components |-> None],
                                      inv.app_folder, home, root), inv.command)
              a == Resolve(params.app_folder, Cwd)
              h == Resolve(params.home_folder, Cwd)
              prepared == PreparePaths(RunPathSpecs(a, h),
                              FsWith(a, h, "dir", "dir", ChildKinds("dir", "data", "dir")))
          IN /\ command = inv.command
             /\ args = Arguments(None, None, [c \in Components |-> None],
                                 inv.app_folder, home, root)
             /\ path_specs = RunPathSpecs(a, h)
             /\ fs = prepared.fs
             /\ ops = prepared.ops
             /\ volume_cmds = GetVolumeCommands(RunPathSpecs(a, h), prepared.fs).cmds
    /\ ps \in PsOutputs
    /\ pc = [i \in Invocations |-> "run_name"]
    /\ status = [i \in Invocations |-> NoStatus]
    /\ running = [i \in Invocations |-> <<>>]
    /\ container_name = [i \in Invocations |-> ""]
    /\ hist = [i \in Invocations |-> NotListed]
    /\ env = 0
    /\ calls = <<>>
    /\ log = <<>>
    /\ exc = ""
    /\ interrupted = ""
    /\ unknown = <<>>
    /\ docker_arg_list = <<>>
    /\ line = None
    /\ reads = 0

\* get_running_containers of invocation i, line 176: the engine answers docker ps
\* with the names it holds; subprocess.run has not returned yet
EngineLists(i) ==
    /\ pc[i] = "run_name"
    /\ ~hist[i].asked
    /\ hist' = [hist EXCEPT ![i] =
                   [@ EXCEPT !.asked = TRUE,
                             !.answer = ps,
                             !.started = {j \in Invocations : hist[j].began},
                             !.live = {j \in Invocations :
                                          pc[j] = "run_wait" /\ ~hist[j].ended}]]
    /\ UNCHANGED <<command, args, unknown, pc, fs, ps, calls, log, status, exc, interrupted,
                   docker_arg_list, path_specs, volume_cmds, container_name, running, line,
                   reads, ops, env>>

\* run_container of invocation i, line 268: docker ps returns to
\* get_next_free_container_name, with the answer of the engine or failing
RaceName(i) ==
    /\ pc[i] = "run_name"
    /\ \E found \in BOOLEAN, rc \in EngineExitCodes :
          LET r == ListContainers(found, rc, hist[i].answer)
          IN /\ hist[i].asked = ~r.exit
             /\ calls' = Append(calls, Call("ps", PsArgv, IF found THEN rc ELSE NoStatus))
             /\ log' = log \o r.records
             /\ IF r.exit
                THEN /\ pc' = [pc EXCEPT ![i] = "exited"]
                     /\ status' = [status EXCEPT ![i] = ExitFailure]
                     /\ UNCHANGED <<container_name, running, hist>>
                ELSE /\ running' = [running EXCEPT ![i] = r.running]
                     /\ container_name' =
                            [container_name EXCEPT ![i] =
                                NextFreeContainerName(PathName(path_specs[1].path), r.running)]
                     /\ hist' = [hist EXCEPT ![i].listed = TRUE]
                     /\ pc' = [pc EXCEPT ![i] = "run_exec"]
                     /\ UNCHANGED status
    /\ UNCHANGED <<command, args, unknown, fs, ps, exc, interrupted, docker_arg_list,
                   path_specs, volume_cmds, line, reads, ops, env>>

\* run_container of invocation i, line 303: docker run is invoked.  The engine
\* refuses a name it holds; otherwise the container starts and subprocess.run
\* waits for it, or docker fails before a container is there.
RaceStart(i) ==
    /\ pc[i] = "run_exec"
    /\ \/ /\ container_name[i] \notin EngineNames
          /\ ps' = Append(ps, container_name[i])
          /\ pc' = [pc EXCEPT ![i] = "run_wait"]
          /\ hist' = [hist EXCEPT ![i].began = TRUE]
          /\ UNCHANGED <<calls, log, status>>
       \/ /\ \E found \in BOOLEAN, rc \in EngineExitCodes \ {0} :
                /\ calls' = Append(calls,
                       Call("run",
                            RunCommand(RunParameters(IMAGE_NAME, args, command),
                                       container_name[i], volume_cmds),
                            IF found THEN rc ELSE NoStatus))
                /\ log' = log \o RunOutcome(found, rc).records
                /\ status' = [status EXCEPT ![i] = RunOutcome(found, rc).status]
          /\ pc' = [pc EXCEPT ![i] = "exited"]
          /\ UNCHANGED <<ps, hist>>
    /\ UNCHANGED <<command, args, unknown, fs, exc, interrupted, docker_arg_list,
                   path_specs, volume_cmds, container_name, running, line, reads, ops,
                   env>>

\* the container of invocation i exits and --rm removes it; docker run has not
\* returned to the invocation yet
EngineRemoves(i) ==
    /\ pc[i] = "run_wait"
    /\ ~hist[i].ended
    /\ \E rc \in EngineExitCodes : hist' = [hist EXCEPT ![i].ended = TRUE, ![i].rc = rc]
    /\ ps' = Without(ps, container_name[i])
    /\ UNCHANGED <<command, args, unknown, pc, fs, calls, log, status, exc, interrupted,
                   docker_arg_list, path_specs, volume_cmds, container_name, running, line,
                   reads, ops, env>>

\* run_container of invocation i, lines 303-308: docker run returns the status of
\* the container that has ended
RaceEnd(i) ==
    /\ pc[i] = "run_wait"
    /\ hist[i].ended
    /\ calls' = Append(calls,
           Call("run",
                RunCommand(RunParameters(IMAGE_NAME, args, command),
                           container_name[i], volume_cmds), hist[i].rc))
    /\ log' = log \o RunOutcome(TRUE, hist[i].rc).records
    /\ status' = [status EXCEPT ![i] = RunOutcome(TRUE, hist[i].rc).status]
    /\ pc' = [pc EXCEPT ![i] = "exited"]
    /\ UNCHANGED <<command, args, unknown, fs, ps, exc, interrupted, docker_arg_list,
                   path_specs, volume_cmds, container_name, running, line, reads, ops,
                   env, hist>>

NextRace ==
    \E i \in Invocations :
        EngineLists(i) \/ RaceName(i) \/ RaceStart(i) \/ EngineRemoves(i) \/ RaceEnd(i)

SpecRace == InitRace /\ [][NextRace]_vars

----------------------------------------------------------------------------
(* The older script, src/ccd.py: build and run only, a docker build made    *)
(* without a shell, three mounts, no container name, no limits.  Only an   *)
(* interrupt raised inside the try around docker run is handled.           *)

\* main, lines 10-14: the arguments of the older script
OldArguments(app_folder, home) == [app_folder |-> app_folder, home |-> home]

\* build_image, line 29
OldBuildCommand(image_name) == <<"docker", "build", "-t", image_name, ".">>

\* run_container, lines 38-47: the paths made, in the order they are made
OldPathSpecs(app_path, home_path) ==
    << PathSpec(app_path, "/app", "folder"),
       PathSpec(PathJoin(home_path, ".claude"), "/home/ubuntu/.claude", "folder"),
       PathSpec(PathJoin(home_path, ".claude.json"), "/home/ubuntu/.claude.json", "file") >>

RECURSIVE OldMounts(_)
\* run_container, lines 52-54: the mount flags, written without looking at the paths
OldMounts(specs) ==
    IF Len(specs) = 0 THEN <<>>
    ELSE <<"-v", Head(specs).path \o ":" \o Head(specs).volume_mapping>>
         \o OldMounts(Tail(specs))

\* run_container, lines 50-56
OldRunCommand(image_name, specs) ==
    <<"docker", "run", "-it", "--rm">> \o OldMounts(specs) \o <<image_name>>

\* run_container, lines 58-61
OldRunBanner(app_path, home_path, cmd) ==
    << LogRecord("stdout", "Running container with:"),
       LogRecord("stdout", "  App folder: " \o app_path),
       LogRecord("stdout", "  Home folder: " \o home_path),
       LogRecord("stdout", "  Command: " \o Join(" ", cmd)) >>

InitOld ==
    /\ command \in {"build", "run"}
    /\ \E app \in AppFolders, home \in Homes :
          /\ args = OldArguments(app, home)
          /\ fs \in InitialFs(Resolve(app, Cwd), Resolve(home, Cwd))
    /\ pc = IF command = "build" THEN "old_build" ELSE "old_prepare"
    /\ hist = [NoHist EXCEPT !.fs0 = fs]
    /\ InitLocals
    /\ path_specs = <<>>
    /\ unknown = <<>>
    /\ ps = <<>>

\* build_image of the older script, lines 25-33; docker missing raises
\* FileNotFoundError, which nothing catches
OldBuild ==
    /\ pc = "old_build"
    /\ \E found \in BOOLEAN, rc \in EngineExitCodes :
          LET banner == <<LogRecord("stdout", "Building Docker image: " \o IMAGE_NAME)>>
          IN /\ calls' = Append(calls, Call("build", OldBuildCommand(IMAGE_NAME),
                                           IF found THEN rc ELSE NoStatus))
             /\ pc' = "exited"
             /\ IF ~found
                THEN status' = ExitFailure /\ exc' = "FileNotFoundError" /\ log' = log \o banner
                ELSE IF rc # 0
                THEN /\ status' = ExitFailure /\ exc' = exc
                     /\ log' = log \o banner \o
                           <<LogRecord("stdout", "Build failed with exit code " \o Str(rc))>>
                ELSE /\ status' = ExitSuccess /\ exc' = exc
                     /\ log' = log \o banner \o
                           <<LogRecord("stdout", "Build completed successfully!")>>
    /\ UNCHANGED <<command, args, unknown, fs, ps, interrupted, docker_arg_list, path_specs,
                   volume_cmds, container_name, running, line, reads, ops, env, hist>>

\* run_container of the older script, lines 38-47: the folders and the file made
OldPrepare ==
    /\ pc = "old_prepare"
    /\ LET specs == OldPathSpecs(Resolve(args.app_folder, Cwd), Resolve(args.home, Cwd))
           r == PreparePaths(specs, fs)
       IN /\ path_specs' = specs
          /\ fs' = r.fs
          /\ ops' = r.ops
          /\ hist' = [hist EXCEPT !.fs1 = r.fs, !.err1 = r.err, !.ops1 = r.ops]
          /\ IF r.err # "" THEN Raise(r.err)
             ELSE pc' = "old_run" /\ UNCHANGED <<status, log, exc>>
    /\ UNCHANGED <<command, args, unknown, ps, calls, interrupted, docker_arg_list,
                   volume_cmds, container_name, running, line, reads, env>>

\* run_container of the older script, lines 50-67: docker run returns
OldRun ==
    /\ pc = "old_run"
    /\ \E found \in BOOLEAN, rc \in EngineExitCodes :
          LET cmd == OldRunCommand(IMAGE_NAME, path_specs)
              banner == OldRunBanner(path_specs[1].path, Resolve(args.home, Cwd), cmd)
          IN /\ calls' = Append(calls, Call("run", cmd, IF found THEN rc ELSE NoStatus))
             /\ pc' = "exited"
             /\ IF ~found
                THEN status' = ExitFailure /\ exc' = "FileNotFoundError" /\ log' = log \o banner
                ELSE IF rc # 0
                THEN /\ status' = ExitFailure /\ exc' = exc
                     /\ log' = log \o banner \o
                           <<LogRecord("stdout",
                                       "Container run failed with exit code " \o Str(rc))>>
                ELSE status' = ExitSuccess /\ exc' = exc /\ log' = log \o banner
    /\ UNCHANGED <<command, args, unknown, fs, ps, interrupted, docker_arg_list, path_specs,
                   volume_cmds, container_name, running, line, reads, ops, env, hist>>

\* run_container of the older script, lines 68-69: the handler prints and
\* returns, and main returns after it
OldRunOnInterrupt ==
    [status |-> ExitSuccess,
     records |-> <<LogRecord("stdout", "\nContainer stopped by user")>>]

\* build_image of the older script, lines 27-33: its try catches CalledProcessError only
OldCutsInBuild ==
    LET banner == <<LogRecord("stdout", "Building Docker image: " \o IMAGE_NAME)>>
    IN {Cut(<<>>, printed, Uncaught) : printed \in Prefixes(banner)}
       \cup {Cut(<<Call("build", OldBuildCommand(IMAGE_NAME), NoStatus)>>, banner, Uncaught)}
       \cup UNION {{Cut(<<Call("build", OldBuildCommand(IMAGE_NAME), rc)>>,
                           banner \o printed, Uncaught) :
                       printed \in Prefixes(
                           IF rc # 0
                           THEN <<LogRecord("stdout",
                                            "Build failed with exit code " \o Str(rc))>>
                           ELSE <<LogRecord("stdout", "Build completed successfully!")>>)} :
                   rc \in EngineExitCodes}

\* run_container of the older script, lines 50-69: before the try, inside it
\* (before docker run is invoked, while it waits, or after it returned 0), after
\* it, and inside the except clause of CalledProcessError
OldCutsInRun ==
    LET cmd == OldRunCommand(IMAGE_NAME, path_specs)
        banner == OldRunBanner(path_specs[1].path, Resolve(args.home, Cwd), cmd)
    IN {Cut(<<>>, printed, Uncaught) : printed \in Prefixes(banner)}
       \cup {Cut(made, banner, OldRunOnInterrupt) :
                made \in {<<>>, <<Call("run", cmd, NoStatus)>>, <<Call("run", cmd, 0)>>}}
       \cup {Cut(<<Call("run", cmd, 0)>>, banner, Uncaught)}
       \cup UNION {{Cut(<<Call("run", cmd, rc)>>, banner \o printed, Uncaught) :
                       printed \in Prefixes(
                           <<LogRecord("stdout",
                                       "Container run failed with exit code " \o Str(rc))>>)} :
                   rc \in EngineExitCodes \ {0}}

\* Ctrl-C once in the older script: the handler around docker run prints and
\* returns; outside its try nothing catches the KeyboardInterrupt, the time
\* after the command has ended included
OldInterrupt ==
    /\ interrupted = ""
    /\ interrupted' = pc
    /\ \E c \in (IF pc = "old_build" THEN OldCutsInBuild
                 ELSE IF pc = "old_prepare"
                 THEN CutsInPrepare(OldPathSpecs(Resolve(args.app_folder, Cwd),
                                                 Resolve(args.home, Cwd)), Uncaught)
                 ELSE IF pc = "old_run" THEN OldCutsInRun
                 ELSE {Cut(<<>>, <<>>, Uncaught)}) :
          /\ calls' = calls \o c.calls
          /\ fs' = c.fs
          /\ ops' = c.ops
          /\ path_specs' = c.path_specs
          /\ pc' = "exited"
          /\ status' = c.handler.status
          /\ log' = log \o c.log \o c.handler.records
          /\ exc' = IF c.handler = Uncaught THEN "KeyboardInterrupt" ELSE exc
    /\ UNCHANGED <<command, args, unknown, ps, docker_arg_list, volume_cmds, container_name,
                   running, line, reads, env, hist>>

NextOld == OldBuild \/ OldPrepare \/ OldRun \/ OldInterrupt

SpecOld == InitOld /\ [][NextOld]_vars

----------------------------------------------------------------------------
(* What the claims speak of *)

CallsOf(kind) == {i \in 1..Len(calls) : calls[i].kind = kind}

EndsWith(s, suffix) ==
    Len(s) >= Len(suffix) /\ SubSeq(s, Len(s) - Len(suffix) + 1, Len(s)) = suffix

\* an error record that names exit code rc was logged
LoggedExitCode(rc) ==
    \E j \in 1..Len(log) :
        log[j].level = "ERROR" /\ EndsWith(log[j].msg, "exit code " \o Str(rc))

\* n written with at least two digits
TwoDigits(n) == IF n < 10 THEN "0" \o Str(n) ELSE Str(n)

\* the name ccd-p-NN
NameFor(p, n) == "ccd-" \o p \o "-" \o TwoDigits(n)

\* the names docker ps prints, as a set
Listed == {ps[i] : i \in 1..Len(ps)}

\* the project name run_container passes to get_next_free_container_name
Project == PathName(path_specs[1].path)

\* C1: get_next_free_container_name(p) returns ccd-p-NN with the smallest positive
\* suffix whose name is not among the running containers R: ccd-p-01 when R holds
\* no name for p, and ccd-foo-03 for R = {ccd-foo-01, ccd-foo-02} and p = foo.
C1_NextFreeName ==
    pc = "run_exec" =>
        /\ \E n \in 1..(Len(ps) + 1) :
              /\ container_name = NameFor(Project, n)
              /\ NameFor(Project, n) \notin Listed
              /\ \A m \in 1..(n - 1) : NameFor(Project, m) \in Listed
        /\ (\A r \in Listed : ~StartsWith(r, "ccd-" \o Project \o "-"))
              => container_name = "ccd-" \o Project \o "-01"
        /\ (Project = "foo" /\ {"ccd-foo-01", "ccd-foo-02"} \subseteq Listed
              /\ "ccd-foo-03" \notin Listed)
              => container_name = "ccd-foo-03"

\* C1's case: two containers of project foo run, and the third name is chosen
C1_Witness == pc = "run_exec" /\ Project = "foo" /\ container_name = "ccd-foo-03"

\* C2: for build, run and attach alike, an engine invocation that exits with a
\* non-zero status c makes the process log c and exit with status 1, and the
\* invocation is made once only.
C2_EngineFailureIsFatal ==
    \A i \in 1..Len(calls) :
        (/\ calls[i].kind \in {"build", "run", "exec"}
         /\ calls[i].rc \notin {0, NoStatus}
         /\ interrupted = "")
        => /\ pc = "exited"
           /\ status = ExitFailure
           /\ LoggedExitCode(calls[i].rc)
           /\ Cardinality(CallsOf(calls[i].kind)) = 1

\* the part of C2 the code keeps: build and run
BuildRunFailureIsFatal ==
    \A i \in 1..Len(calls) :
        (/\ calls[i].kind \in {"build", "run"}
         /\ calls[i].rc \notin {0, NoStatus}
         /\ interrupted = "")
        => /\ pc = "exited"
           /\ status = ExitFailure
           /\ LoggedExitCode(calls[i].rc)
           /\ Cardinality(CallsOf(calls[i].kind)) = 1

\* the build branch of main has resolved the feature lists, not interrupted
BuildResolved ==
    /\ command = "build"
    /\ interrupted = ""
    /\ pc \in {"build_image", "exited"}

\* how many build arguments set the feature's argument to the value
FeatureArgCount(f, value) ==
    Cardinality({i \in 1..Len(docker_arg_list) :
                    docker_arg_list[i] = FEATURE_BUILD_ARGS[f] \o "=" \o value})

NoFeatureArgs == \A i \in 1..Len(docker_arg_list) : ~StartsWith(docker_arg_list[i], "WITH_")

\* the names a comma-separated list holds
NamesIn(v) == ParseFeatureList(v.val)

\* C3: with --with W (known features) there is exactly one build argument per known
\* feature, 1 for the features of W and 0 for the others; with --without X one per
\* known feature, 0 for the features of X and 1 for the others; with neither flag
\* there is no WITH_* build argument.
C3_FeatureResolution ==
    BuildResolved =>
        /\ (args.with_features.some /\ ~args.without_features.some
               /\ NamesIn(args.with_features) \subseteq Features)
           => \A f \in Features :
                 /\ FeatureArgCount(f, "1") = (IF f \in NamesIn(args.with_features) THEN 1 ELSE 0)
                 /\ FeatureArgCount(f, "0") = (IF f \in NamesIn(args.with_features) THEN 0 ELSE 1)
        /\ (args.without_features.some /\ ~args.with_features.some
               /\ NamesIn(args.without_features) \subseteq Features)
           => \A f \in Features :
                 /\ FeatureArgCount(f, "0") = (IF f \in NamesIn(args.without_features) THEN 1 ELSE 0)
                 /\ FeatureArgCount(f, "1") = (IF f \in NamesIn(args.without_features) THEN 0 ELSE 1)
        /\ (~args.with_features.some /\ ~args.without_features.some) => NoFeatureArgs

\* the part of C3 the code keeps: the lists given are not the empty string
FeatureResolutionOfNonEmpty ==
    BuildResolved =>
        /\ (Truthy(args.with_features) /\ ~args.without_features.some
               /\ NamesIn(args.with_features) \subseteq Features)
           => \A f \in Features :
                 /\ FeatureArgCount(f, "1") = (IF f \in NamesIn(args.with_features) THEN 1 ELSE 0)
                 /\ FeatureArgCount(f, "0") = (IF f \in NamesIn(args.with_features) THEN 0 ELSE 1)
        /\ (Truthy(args.without_features) /\ ~args.with_features.some
               /\ NamesIn(args.without_features) \subseteq Features)
           => \A f \in Features :
                 /\ FeatureArgCount(f, "0") = (IF f \in NamesIn(args.without_features) THEN 1 ELSE 0)
                 /\ FeatureArgCount(f, "1") = (IF f \in NamesIn(args.without_features) THEN 0 ELSE 1)
        /\ (~args.with_features.some /\ ~args.without_features.some) => NoFeatureArgs

\* C4: when a list names an unknown feature, or both --with and --without are
\* given, the process exits with status 1 before any build argument is emitted
\* and before the engine build is invoked.
C4_UsageErrorsAbort ==
    (/\ BuildResolved
     /\ \/ args.with_features.some /\ ~(NamesIn(args.with_features) \subseteq Features)
        \/ args.without_features.some /\ ~(NamesIn(args.without_features) \subseteq Features)
        \/ args.with_features.some /\ args.without_features.some)
    => /\ pc = "exited"
       /\ status = ExitFailure
       /\ docker_arg_list = unknown
       /\ CallsOf("build") = {}

\* the part of C4 the code keeps: both lists given and neither the empty string
UsageErrorsOfNonEmptyAbort ==
    (/\ BuildResolved
     /\ \/ Truthy(args.with_features) /\ Truthy(args.without_features)
        \/ /\ ~(args.with_features.some /\ args.without_features.some)
           /\ \/ ~(NamesIn(args.with_features) \subseteq Features)
              \/ ~(NamesIn(args.without_features) \subseteq Features))
    => /\ pc = "exited"
       /\ status = ExitFailure
       /\ docker_arg_list = unknown
       /\ CallsOf("build") = {}

\* the step lists the containers for the prompt and is not an interrupt
PromptTurn ==
    pc = "attach_prompt" /\ Len(calls') = Len(calls) + 1 /\ interrupted' = ""

\* the listing of that turn succeeded
ListingOk == calls'[Len(calls')].rc = 0

\* the running ccd- containers the engine lists
Ours == {r \in Listed : StartsWith(r, "ccd-")}

\* the names of the list the prompt showed last
Shown == {running[k] : k \in 1..Len(running)}

\* the step is input() returning a line at the prompt
ReadLine ==
    pc = "attach_input" /\ reads' = reads + 1 /\ interrupted' = "" /\ exc' # "EOFError"

\* C5: prompt_container_name fails with "no running containers" when the engine
\* lists no ccd- container, returns the only one without reading input when it
\* lists one, and returns the lexicographically smallest name when it lists
\* several and the line read is empty.
C5_PromptDefaults ==
    [][/\ (PromptTurn /\ ListingOk) =>
          /\ Ours = {}
                => (pc' = "exited" /\ exc' = NoContainers /\ status' = ExitFailure
                    /\ reads' = reads)
          /\ Cardinality(Ours) = 1
                => (pc' = "attach_exec" /\ container_name' \in Ours /\ reads' = reads)
          /\ Cardinality(Ours) > 1
                => (pc' = "attach_input" /\ Shown' = Ours /\ Len(running') = Cardinality(Ours)
                    /\ reads' = reads /\ status' = NoStatus)
       /\ (ReadLine /\ line' = Some(""))
                => (/\ pc' = "attach_exec"
                    /\ container_name' \in Shown
                    /\ \A o \in Shown \ {container_name'} : StrLess(container_name', o))
      ]_vars

\* C5's case: several containers run in an order that is not sorted, an empty line
\* is read and the smallest name is returned
C5_Witness ==
    /\ pc = "attach_exec"
    /\ reads = 1
    /\ line = Some("")
    /\ Len(ps) > 1 /\ IsOurs(ps[1]) /\ container_name # ps[1]
    /\ container_name \in Listed

\* C6 as stated: only the run path catches a keyboard interrupt; one raised during
\* attach does not end the process with the clean status 0.
C6_AttachInterruptNotClean ==
    (pc = "exited" /\ interrupted \in {"attach_prompt", "attach_input", "attach_exec"})
        => status # ExitSuccess

\* C6 amended: one keyboard interrupt raised while the body of main's try runs
\* ends the process with status 0 and no traceback, whatever the command:
\* run_container catches it anywhere inside its try around docker run (before
\* the call is made, while it waits, or after it returned 0) and logs "Container
\* stopped by user"; main catches it everywhere else, build and attach and the
\* except clauses of run_container included, and prints "Operation cancelled by
\* user".  Outside the body of main's try (before it is entered, or once the
\* command has ended) nothing catches it and the process ends with the traceback
\* of KeyboardInterrupt.
C6_InterruptExitsZero ==
    /\ interrupted \notin {"", "main", "exited"} =>
          /\ pc = "exited"
          /\ status = ExitSuccess
          /\ exc = ""
          /\ log[Len(log)].msg \in {"Container stopped by user",
                                    "\nOperation cancelled by user"}
          /\ log[Len(log)].msg = "Container stopped by user" =>
                /\ interrupted = "run_exec"
                /\ command \in {"run", "."}
                /\ \A i \in CallsOf("run") : i = Len(calls) /\ calls[i].rc \in {NoStatus, 0}
          /\ (Len(calls) > 0 /\ calls[Len(calls)].kind = "run"
                 /\ calls[Len(calls)].rc \notin {NoStatus, 0}) =>
                log[Len(log)].msg = "\nOperation cancelled by user"
          /\ interrupted # "run_exec" => log[Len(log)].msg = "\nOperation cancelled by user"
    /\ interrupted \in {"main", "exited"} =>
          /\ pc = "exited"
          /\ status = KeyboardInterruptStatus
          /\ exc = "KeyboardInterrupt"
    /\ interrupted = "main" => (calls = <<>> /\ log = <<>>)

\* C6's case: the interrupt is raised while docker exec runs for attach
C6_Witness ==
    /\ command = "attach"
    /\ interrupted = "attach_exec"
    /\ pc = "exited"
    /\ CallsOf("exec") # {}

\* the app path and the home path the arguments stand for
ExpectedAppPath ==
    IF command = "." THEN "/w/a"
    ELSE IF args.app_folder = "./app" THEN "/w/a/app"
    ELSE IF args.app_folder = ".." THEN "/w"
    ELSE args.app_folder

ExpectedHomePath == IF args.home = "h" THEN "/w/a/h" ELSE args.home

ExpectedMounts ==
    << "-v", ExpectedAppPath \o ":/app",
       "-v", ExpectedHomePath \o "/.claude:/home/ubuntu/.claude",
       "-v", ExpectedHomePath \o "/.claude.json:/home/ubuntu/.claude.json",
       "-v", ExpectedHomePath \o "/.gemini:/home/ubuntu/.gemini",
       "-v", ExpectedHomePath \o "/.codex:/home/ubuntu/.codex",
       "-v", ExpectedHomePath \o "/.copilot:/home/ubuntu/.copilot" >>

\* C7: whenever docker run is invoked its mount flags are exactly six -v
\* source:target pairs, in the order app, .claude, .claude.json, .gemini, .codex,
\* .copilot, whatever the app folder, the home folder and the root flag.
C7_MountFlags ==
    \A i \in CallsOf("run") :
        LET argv == calls[i].argv
            first == IF args.root THEN 15 ELSE 13
        IN /\ Len(argv) = first + 12
           /\ SubSeq(argv, first, first + 11) = ExpectedMounts
           /\ Cardinality({j \in 1..Len(argv) : argv[j] = "-v"}) = 6
           /\ argv[Len(argv)] = "claude-code"

\* C7's case: `ccd . --root` with a relative home reached docker run
C7_Witness ==
    /\ command = "." /\ args.root /\ args.home = "h"
    /\ \E i \in CallsOf("run") : calls[i].rc = 0

\* attach listed the containers, not interrupted, and found none of ours
FoundNoContainer ==
    /\ command = "attach"
    /\ Len(calls) > 0
    /\ calls[Len(calls)].kind = "ps" /\ calls[Len(calls)].rc = 0
    /\ running = <<>>
    /\ interrupted = ""

\* run came to render the mount flags (prepared, not interrupted before) and a
\* mount source was not there
SourceMissingAtRender ==
    /\ command \in {"run", "."}
    /\ Len(path_specs) > 0 /\ hist.err1 = ""
    /\ pc # "run_render" /\ interrupted = ""
    /\ \E i \in 1..Len(path_specs) : ~PathExists(fs, path_specs[i].path)

\* C8: when attach finds no running container, or a mount source does not exist
\* when run renders the mount flags, the process exits with a non-zero status and
\* makes no docker exec or docker run invocation; no partial list of mount flags
\* is left.
C8_StateErrorsAreFatal ==
    /\ FoundNoContainer
          => (pc = "exited" /\ status \notin {ExitSuccess, NoStatus}
              /\ exc = NoContainers /\ CallsOf("exec") = {})
    /\ SourceMissingAtRender
          => (pc = "exited" /\ status \notin {ExitSuccess, NoStatus}
              /\ exc = "FileNotFoundError"
              /\ CallsOf("run") = {} /\ CallsOf("ps") = {}
              /\ volume_cmds = <<>>)

\* C8's case: a source vanished after it was prepared, and run stopped
C8_Witness ==
    /\ SourceMissingAtRender
    /\ env = 1
    /\ PathExists(hist.fs1, path_specs[Len(path_specs)].path)
    /\ ~PathExists(fs, path_specs[Len(path_specs)].path)
    /\ PathExists(fs, path_specs[1].path)

\* in these calls every folder of the list is made before a file is touched
DirsBeforeFiles(done) ==
    \A j \in 1..Len(done) :
        done[j].op = "touch" =>
            /\ \A k \in 1..Len(path_specs) :
                  path_specs[k].type = "folder"
                     => \E i \in 1..(j - 1) : done[i] = FsOp("mkdir", path_specs[k].path)
            /\ \A i \in (j + 1)..Len(done) : done[i].op = "touch"

\* the files that were there before are there with the content they had
FilesKept(before, after) ==
    \A q \in DOMAIN before : before[q] \in {"empty", "data"} => Kind(after, q) = before[q]

\* C9 as stated: for any PathSpec list and any filesystem, two runs of
\* prepare_paths raise no error and leave what one run leaves; files keep their
\* content and folders are made before files are touched.
C9_PrepareTwiceNoError ==
    pc = "prepared" =>
        /\ hist.err1 = "" /\ exc = ""
        /\ fs = hist.fs1
        /\ FilesKept(hist.fs0, fs)
        /\ DirsBeforeFiles(hist.ops1) /\ DirsBeforeFiles(ops)

\* C9 amended: a second run of prepare_paths leaves the filesystem as the first
\* run left it and raises an error exactly when the first run did (so none when
\* the first raised none); files keep their content and folders are made before
\* files are touched.  The first run can raise: a folder path that is, or lies
\* under, a file; a file path whose parent is missing or is a file.
C9_PrepareIdempotent ==
    pc = "prepared" =>
        /\ exc = hist.err1
        /\ fs = hist.fs1
        /\ FilesKept(hist.fs0, hist.fs1) /\ FilesKept(hist.fs0, fs)
        /\ DirsBeforeFiles(hist.ops1) /\ DirsBeforeFiles(ops)
        /\ hist.err1 = ""
              => \A k \in 1..Len(path_specs) :
                    /\ PathExists(fs, path_specs[k].path)
                    /\ path_specs[k].type = "folder" => PathIsDir(fs, path_specs[k].path)

\* C9's case: the list holds a folder that was missing and a file with content,
\* and the two runs raised nothing
C9_Witness ==
    /\ pc = "prepared"
    /\ hist.err1 = "" /\ exc = ""
    /\ hist.fs0 # hist.fs1
    /\ \E k \in 1..Len(path_specs) :
          path_specs[k].type = "file" /\ hist.fs0[path_specs[k].path] = "data"
    /\ \E k \in 1..Len(path_specs) :
          path_specs[k].type = "folder" /\ hist.fs0[path_specs[k].path] = "none"

\* how many listed names sort before this one
RankOf(name) == Cardinality({o \in Shown : StrLess(o, name)})

\* the line read, without the white space around it
Typed == Strip(line'.val)

\* the line is a string of decimal digits naming a listed position
InRange(t) == IsDecimal(t) /\ IntOf(t, 0) < Cardinality(Shown)

\* C10: with several running containers the prompt returns only names of the list
\* it has just read: a listed name returns that name, a digit string i with
\* 0 <= i < n returns the i-th name in sorted order, and any other input returns
\* nothing and prompts again.
C10_PromptSelection ==
    [][(ReadLine /\ Cardinality(Shown) > 1) =>
          /\ pc' = "attach_exec" => container_name' \in Shown
          /\ Typed \in Shown => (pc' = "attach_exec" /\ container_name' = Typed)
          /\ InRange(Typed)
                => (pc' = "attach_exec" /\ RankOf(container_name') = IntOf(Typed, 0))
          /\ (Typed # "" /\ Typed \notin Shown /\ ~InRange(Typed))
                => (pc' = "attach_prompt" /\ status' = NoStatus /\ exc' = ""
                    /\ container_name' = container_name)
      ]_vars

\* the part of C10 the code keeps: the line holds no digit that int() rejects
PromptSelectionOfDecimalInput ==
    [][(ReadLine /\ Cardinality(Shown) > 1
          /\ (IsDigit(Typed) => IsDecimal(Typed))) =>
          /\ pc' = "attach_exec" => container_name' \in Shown
          /\ Typed \in Shown => (pc' = "attach_exec" /\ container_name' = Typed)
          /\ InRange(Typed)
                => (pc' = "attach_exec" /\ RankOf(container_name') = IntOf(Typed, 0))
          /\ (Typed # "" /\ Typed \notin Shown /\ ~InRange(Typed))
                => (pc' = "attach_prompt" /\ status' = NoStatus /\ exc' = ""
                    /\ container_name' = container_name)
      ]_vars

\* C11: the name check is check-then-act with no lock.  When two run invocations
\* for the same project folder both list the running containers before either
\* has started its container, both choose the same name; when one lists while
\* the container of the other runs, the names chosen are distinct.
C11_CheckThenAct ==
    \A i \in Invocations : \A j \in Invocations \ {i} :
        (hist[i].listed /\ hist[j].listed) =>
            /\ (hist[i].started = {} /\ hist[j].started = {})
                  => container_name[i] = container_name[j]
            /\ j \in hist[i].live
                  => (/\ container_name[i] # container_name[j]
                      /\ Contains(running[i], container_name[j]))

\* C11's case: both listed before either started, both chose the same name, the
\* container of the first runs under it and the docker run of the second failed
C11_Witness ==
    /\ hist["first"].listed /\ hist["second"].listed
    /\ hist["first"].started = {} /\ hist["second"].started = {}
    /\ container_name["first"] = container_name["second"]
    /\ pc["first"] = "run_wait"
    /\ container_name["first"] \in EngineNames
    /\ pc["second"] = "exited" /\ status["second"] = ExitFailure

====
